---- MODULE Spec2Model ----
(***************************************************************************)
(* The NAT reconciliation engine of minion/network/nat.go: the control     *)
(* loop runNat, updateNAT, the default-rule installer, the rule-target     *)
(* compiler routingRules and the chain synchronizer syncChain, run against *)
(* an in-memory firewall (one rule list per chain of the nat table).       *)
(*                                                                         *)
(* A Go string that is cut at spaces is modelled as a Text: a sequence of  *)
(* atoms, each atom a space-free word or the single space SP.  An argument *)
(* list ([]string, ...string) is a sequence of words.                      *)
(***************************************************************************)
EXTENDS Integers, Sequences, FiniteSets, TLC

VARIABLES
    ipt,             \* the kernel's nat table: chain name -> list of rule argument lists
    routes,          \* the host routing state read by getPublicInterface
    dbMinion,        \* the local minion record (db.MinionTable)
    dbContainers,    \* db.ContainerTable
    dbConnections,   \* db.ConnectionTable
    pc,              \* position of the runNat goroutine
    containers,      \* runNat/updateNAT local: the selected containers
    connections,     \* runNat/updateNAT local: the selected connections
    publicInterface, \* updateNAT local
    defIdx,          \* setDefaultRules: index of the next rule of `rules`
    target,          \* updateNAT/syncChain local: the compiled rule strings
    curr,            \* syncChain local: the rules getRules returned
    rulesToDel,      \* syncChain local: deletions not yet issued
    rulesToAdd,      \* syncChain local: additions not yet issued
    result,          \* what the last tick ended with (the logged error, or "nil")
    ticks,           \* ticks consumed so far
    calls,           \* history: the adapter calls of the current tick, in order
    iptAtStart,      \* history: ipt when the current tick began
    iptInit,         \* history: ipt in the initial state
    prevOk,          \* history: the rule set of the previous tick when it ended "nil"
    faults,          \* failures the host may still inflict on adapter calls
    failedAt,        \* history: index in calls of the call that failed, or 0
    prevPartial,     \* history: the previous tick aborted after changing the chain
    extLeft,         \* mutations another agent may still make to nat/PREROUTING
    interfered,      \* history: another agent changed the chain during this tick
    stitch           \* the Stitch under construction: connections and placements

vars == <<ipt, routes, dbMinion, dbContainers, dbConnections, pc, containers,
          connections, publicInterface, defIdx, target, curr, rulesToDel,
          rulesToAdd, result, ticks, calls, iptAtStart, iptInit, prevOk, faults,
          failedAt, prevPartial, extLeft, interfered, stitch>>

-----------------------------------------------------------------------------
(* Bounds of the model *)

\* rules in nat/PREROUTING in the initial state
MaxChain == 2
\* rules in each of INPUT, OUTPUT, POSTROUTING initially
MaxBase == 2
\* rows of the container table
MaxContainers == 2
\* rows of the connection table
MaxConns == 2
\* ticks of the control loop
MaxTicks == 2
\* adapter calls (iptables.New included) the host fails in one run
MaxFaults == 1
\* changes another agent makes to nat/PREROUTING in one run
MaxExt == 1

-----------------------------------------------------------------------------
(* Generic helpers *)

Range(s) == {s[i] : i \in 1..Len(s)}

SeqsUpTo(S, n) == UNION {[1..k -> S] : k \in 0..n}

RECURSIVE Orders(_)
\* every order in which Go may range over a map with key set S
Orders(S) ==
    IF S = {} THEN {<<>>}
    ELSE UNION {{<<x>> \o s : s \in Orders(S \ {x})} : x \in S}

SP == " "

\* the words separated by single spaces, as a Text; an empty word adds no atom
Join(ws) ==
    SelectSeq([i \in 1..(2 * Len(ws) - 1) |->
                   IF i % 2 = 1 THEN ws[(i + 1) \div 2] ELSE SP],
              LAMBDA a : a # "")

\* a space-free Text as one word
Word(t) == IF t = <<>> THEN "" ELSE t[1]

\* the indices of the spaces of a Text, in order
Spaces(t) == SelectSeq([i \in 1..Len(t) |-> i], LAMBDA i : t[i] = SP)

\* the piece of t between its k-th cut and the next (cut 0 is the start, the
\* cut after the last is the end)
Piece(t, cuts, k) ==
    SubSeq(t, (IF k = 0 THEN 0 ELSE cuts[k]) + 1,
              (IF k = Len(cuts) THEN Len(t) + 1 ELSE cuts[k + 1]) - 1)

\* strings.SplitN(t, " ", n) for n >= 1: at most n pieces, the last one unsplit.
\* The first n-1 pieces are space-free; each piece is returned as a Text.
SplitN(t, n) ==
    LET all == Spaces(t)
        cuts == IF Len(all) < n THEN all ELSE SubSeq(all, 1, n - 1)
    IN [k \in 1..(Len(cuts) + 1) |-> Piece(t, cuts, k - 1)]

\* strings.Split(t, " "): every piece is space-free and returned as a word
Split(t) ==
    LET cuts == Spaces(t)
    IN [k \in 1..(Len(cuts) + 1) |-> Word(Piece(t, cuts, k - 1))]

-----------------------------------------------------------------------------
(* Program constants and the values the inputs are drawn from *)

PublicInternetLabel == "public"

Chains == {"INPUT", "OUTPUT", "POSTROUTING", "PREROUTING"}

Protocols == <<"tcp", "udp">>

Ports == {80, 81}

Digits == <<"0", "1", "2", "3", "4", "5", "6", "7", "8", "9">>

RECURSIVE PortStr(_)
\* %d of a non-negative port number
PortStr(p) ==
    IF p < 10 THEN Digits[p + 1] ELSE PortStr(p \div 10) \o Digits[(p % 10) + 1]

IPs == {"10.0.0.5", "10.0.0.9"}
Ifaces == {"eth0", "eth1"}

\* the rule text routingRules formats for one (interface, protocol, port, ip)
FmtRule(iface, protocol, port, ip) ==
    Join(<<"-i", iface, "-p", protocol, "-m", protocol,
           "--dport", PortStr(port), "-j", "DNAT",
           "--to-destination", ip \o ":" \o PortStr(port)>>)

-----------------------------------------------------------------------------
(* The firewall adapter (interface IPTables) over one chain's rule list *)

\* Append: the rule goes to the end of the chain
iptAppend(ch, ruleSpec) == ch \o <<ruleSpec>>

\* AppendUnique: appended only when no equal rule is in the chain
iptAppendUnique(ch, ruleSpec) ==
    IF ruleSpec \in Range(ch) THEN ch ELSE ch \o <<ruleSpec>>

\* Delete fails when no rule of the chain matches
iptDeleteOk(ch, ruleSpec) == ruleSpec \in Range(ch)

\* Delete: the first matching rule is removed
iptDelete(ch, ruleSpec) ==
    LET i == CHOOSE k \in 1..Len(ch) :
                 ch[k] = ruleSpec /\ \A j \in 1..(k - 1) : ch[j] # ruleSpec
    IN SubSeq(ch, 1, i - 1) \o SubSeq(ch, i + 1, Len(ch))

\* List: the chain's policy line, then one "-A <chain> <rule>" line per rule
iptList(chain, ch) ==
    <<Join(<<"-P", chain, "ACCEPT">>)>>
        \o [i \in 1..Len(ch) |-> Join(<<"-A", chain>> \o ch[i])]

-----------------------------------------------------------------------------
(* getPublicInterfaceImpl: the interface of the default route *)

\* a resolver that does not notice the missing default route
getPublicInterfaceUnchecked(rt) ==
    IF rt.routeListErr THEN [err |-> "route list", name |-> ""]
    ELSE LET defaults == {i \in 1..Len(rt.routeList) : rt.routeList[i].Dst = "nil"}
         IN IF defaults = {} THEN [err |-> "nil", name |-> ""]
            ELSE LET first == CHOOSE i \in defaults : \A j \in defaults : i <= j
                     defaultRoute == rt.routeList[first]
                 IN IF defaultRoute.LinkIndex \notin DOMAIN rt.links
                    THEN [err |-> "default route missing interface", name |-> ""]
                    ELSE [err |-> "nil", name |-> rt.links[defaultRoute.LinkIndex]]

getPublicInterfaceImpl(rt) ==
    IF rt.routeListErr THEN [err |-> "route list", name |-> ""]
    ELSE LET defaults == {i \in 1..Len(rt.routeList) : rt.routeList[i].Dst = "nil"}
         IN IF defaults = {} THEN [err |-> "missing default route", name |-> ""]
            ELSE LET first == CHOOSE i \in defaults : \A j \in defaults : i <= j
                     defaultRoute == rt.routeList[first]
                 IN IF defaultRoute.LinkIndex \notin DOMAIN rt.links
                    THEN [err |-> "default route missing interface", name |-> ""]
                    ELSE [err |-> "nil", name |-> rt.links[defaultRoute.LinkIndex]]

-----------------------------------------------------------------------------
(* setDefaultRules: the three baseline rules, in the order they are installed *)

\* a rule table without the masquerade rule
DefaultRulesNoMasquerade(iface) ==
    << [table |-> "nat", chain |-> "INPUT", ruleSpec |-> <<"-j", "ACCEPT">>],
       [table |-> "nat", chain |-> "OUTPUT", ruleSpec |-> <<"-j", "ACCEPT">>] >>

DefaultRules(iface) ==
    << [table |-> "nat", chain |-> "INPUT", ruleSpec |-> <<"-j", "ACCEPT">>],
       [table |-> "nat", chain |-> "OUTPUT", ruleSpec |-> <<"-j", "ACCEPT">>],
       [table |-> "nat", chain |-> "POSTROUTING",
        ruleSpec |-> <<"-s", "10.0.0.0/8", "-o", iface, "-j", "MASQUERADE">>] >>

-----------------------------------------------------------------------------
(* routingRules: the rule-target compiler *)

\* a map that keeps only the last port recorded for an address
RecordPortOverwrite(portsFromWeb, ip, port) ==
    IF ip \in DOMAIN portsFromWeb
    THEN [portsFromWeb EXCEPT ![ip] = {port}]
    ELSE portsFromWeb @@ (ip :> {port})

\* portsFromWeb[ip][port] = struct{}{}, creating the inner map when missing
RecordPort(portsFromWeb, ip, port) ==
    IF ip \in DOMAIN portsFromWeb
    THEN [portsFromWeb EXCEPT ![ip] = @ \cup {port}]
    ELSE portsFromWeb @@ (ip :> {port})

RECURSIVE LabelLoop(_, _, _, _)
\* for _, l := range dbc.Labels
LabelLoop(portsFromWeb, dbc, conn, i) ==
    IF i > Len(dbc.Labels) THEN portsFromWeb
    ELSE LabelLoop(IF conn.To # dbc.Labels[i] THEN portsFromWeb
                   ELSE RecordPort(portsFromWeb, dbc.IP, conn.MinPort),
                   dbc, conn, i + 1)

RECURSIVE ConnLoopAnySource(_, _, _, _)
\* a loop that does not skip the connections from inside the cluster
ConnLoopAnySource(portsFromWeb, dbc, conns, i) ==
    IF i > Len(conns) THEN portsFromWeb
    ELSE ConnLoopAnySource(LabelLoop(portsFromWeb, dbc, conns[i], 1),
                           dbc, conns, i + 1)

RECURSIVE ConnLoop(_, _, _, _)
\* for _, conn := range connections
ConnLoop(portsFromWeb, dbc, conns, i) ==
    IF i > Len(conns) THEN portsFromWeb
    ELSE ConnLoop(IF conns[i].From # PublicInternetLabel THEN portsFromWeb
                  ELSE LabelLoop(portsFromWeb, dbc, conns[i], 1),
                  dbc, conns, i + 1)

RECURSIVE ContainerLoop(_, _, _, _)
\* for _, dbc := range containers
ContainerLoop(portsFromWeb, ctrs, conns, i) ==
    IF i > Len(ctrs) THEN portsFromWeb
    ELSE ContainerLoop(ConnLoop(portsFromWeb, ctrs[i], conns, 1), ctrs, conns, i + 1)

\* the map built by the first loop nest
PortsFromWeb(ctrs, conns) == ContainerLoop(<<>>, ctrs, conns, 1)

RECURSIVE EmitPorts(_, _, _)
\* for port := range ports { for _, protocol := range protocols { append } }
EmitPorts(iface, ip, portSeq) ==
    IF portSeq = <<>> THEN <<>>
    ELSE [k \in 1..Len(Protocols) |-> FmtRule(iface, Protocols[k], portSeq[1], ip)]
             \o EmitPorts(iface, ip, Tail(portSeq))

RECURSIVE EmitIPs(_, _, _)
\* for ip, ports := range portsFromWeb
EmitIPs(iface, ipSeq, portOrder) ==
    IF ipSeq = <<>> THEN <<>>
    ELSE EmitPorts(iface, ipSeq[1], portOrder[ipSeq[1]])
             \o EmitIPs(iface, Tail(ipSeq), portOrder)

\* the iteration orders Go may pick for the inner maps
PortOrders(portsFromWeb) ==
    LET D == DOMAIN portsFromWeb
    IN {f \in [D -> UNION {Orders(portsFromWeb[ip]) : ip \in D}] :
            \A ip \in D : f[ip] \in Orders(portsFromWeb[ip])}

\* every slice routingRules may return: one per iteration order of the maps
routingRules(iface, ctrs, conns) ==
    LET portsFromWeb == PortsFromWeb(ctrs, conns)
    IN {EmitIPs(iface, ipSeq, portOrder) :
            ipSeq \in Orders(DOMAIN portsFromWeb),
            portOrder \in PortOrders(portsFromWeb)}

-----------------------------------------------------------------------------
(* getRules and the join of syncChain *)

HasPrefixA(t) == Len(t) >= 1 /\ t[1] = "-A"

RECURSIVE getRulesLoopSkipping(_, _)
\* a loop that passes over a line it cannot split
getRulesLoopSkipping(rawRules, rules) ==
    IF rawRules = <<>> THEN [err |-> FALSE, rules |-> rules]
    ELSE LET r == Head(rawRules)
             rSplit == SplitN(r, 3)
         IN IF ~HasPrefixA(r) \/ Len(rSplit) # 3
            THEN getRulesLoopSkipping(Tail(rawRules), rules)
            ELSE getRulesLoopSkipping(Tail(rawRules), Append(rules, rSplit[3]))

RECURSIVE getRulesLoop(_, _)
\* for _, r := range rawRules
getRulesLoop(rawRules, rules) ==
    IF rawRules = <<>> THEN [err |-> FALSE, rules |-> rules]
    ELSE LET r == Head(rawRules)
         IN IF ~HasPrefixA(r) THEN getRulesLoop(Tail(rawRules), rules)
            ELSE LET rSplit == SplitN(r, 3)
                 IN IF Len(rSplit) # 3 THEN [err |-> TRUE, rules |-> <<>>]
                    ELSE getRulesLoop(Tail(rawRules), Append(rules, rSplit[3]))

getRules(chain, ch) == getRulesLoop(iptList(chain, ch), <<>>)

\* join.HashJoin with identity keys: the left elements with no equal right
\* element, and the right elements with no equal left element
HashJoin(left, right) ==
    [lonelyLefts |-> SelectSeq(left, LAMBDA l : l \notin Range(right)),
     lonelyRights |-> SelectSeq(right, LAMBDA r : r \notin Range(left))]

\* a join that pairs the operands the wrong way round
syncChainJoinSwapped(current, wanted) == HashJoin(wanted, current)

\* a join that re-adds every wanted rule
syncChainJoinAddAll(current, wanted) ==
    [lonelyLefts |-> HashJoin(current, wanted).lonelyLefts, lonelyRights |-> wanted]

\* a join that empties the chain and rebuilds it
syncChainJoinFlush(current, wanted) ==
    [lonelyLefts |-> current, lonelyRights |-> wanted]

\* syncChain: _, rulesToDel, rulesToAdd := join.HashJoin(curr, target, nil, nil)
syncChainJoin(current, wanted) == HashJoin(current, wanted)

-----------------------------------------------------------------------------
(* stitch: the placement rules of public ports *)

\* Placement{Exclusive: true, TargetLabel: tgt, OtherLabel: other}
ExclusivePlacement(tgt, other) ==
    [TargetLabel |-> tgt, Exclusive |-> TRUE, OtherLabel |-> other,
     Provider |-> "", Size |-> "", Region |-> ""]

\* a target that is always the connection's destination
StitchTargetTo(c) == c.To

\* createPortRules: target := c.From; if c.From == PublicInternetLabel
\* { target = c.To }
StitchTarget(c) == IF c.From = PublicInternetLabel THEN c.To ELSE c.From

RECURSIVE PortLabels(_, _)
\* createPortRules, first loop: ports[min] = append(ports[min], target) for
\* the connections that have the public label at one end
PortLabels(conns, ports) ==
    IF conns = <<>> THEN ports
    ELSE LET c == Head(conns)
             min == c.MinPort
             labels == IF min \in DOMAIN ports THEN ports[min] ELSE <<>>
         IN IF c.From # PublicInternetLabel /\ c.To # PublicInternetLabel
            THEN PortLabels(Tail(conns), ports)
            ELSE PortLabels(Tail(conns),
                            [p \in DOMAIN ports \cup {min} |->
                                 IF p = min THEN Append(labels, StitchTarget(c))
                                 ELSE ports[p]])

\* createPortRules, the two inner loops: for tgt, for other
LabelPairs(labels) ==
    [k \in 1..(Len(labels) * Len(labels)) |->
         ExclusivePlacement(labels[((k - 1) \div Len(labels)) + 1],
                            labels[((k - 1) % Len(labels)) + 1])]

RECURSIVE PortPairs(_, _)
\* createPortRules, second loop over the ports in the order o
PortPairs(ports, o) ==
    IF o = <<>> THEN <<>>
    ELSE LabelPairs(ports[Head(o)]) \o PortPairs(ports, Tail(o))

\* createPortRules: every slice stitch.Placements may be afterwards, one per
\* order in which Go ranges over the map ports
createPortRules(conns, placements) ==
    LET ports == PortLabels(conns, <<>>)
    IN {placements \o PortPairs(ports, o) : o \in Orders(DOMAIN ports)}

\* no Stitch is being built
NoStitch ==
    [Connections |-> <<>>, Placements |-> <<>>, Parsed |-> <<>>, pc |-> "done"]

\* New: spec.createPortRules(), after the connections and placements of the
\* specification were read
CreatePortRules ==
    /\ stitch.pc = "parsed"
    /\ \E ps \in createPortRules(stitch.Connections, stitch.Placements) :
         stitch' = [stitch EXCEPT !.Placements = ps, !.pc = "done"]
    /\ UNCHANGED <<ipt, routes, dbMinion, dbContainers, dbConnections, pc,
                   containers, connections, publicInterface, defIdx, target, curr,
                   rulesToDel, rulesToAdd, result, ticks, calls, iptAtStart,
                   iptInit, prevOk, faults, failedAt, prevPartial, extLeft,
                   interfered>>

-----------------------------------------------------------------------------
(* The control loop and one reconciliation pass, one action per step *)

\* a selection that keeps the containers without an address
SelectFromContainerAll(rows) == rows

\* runNat: conn.SelectFromContainer(func(c) bool { return c.IP != "" })
SelectFromContainer(rows) == SelectSeq(rows, LAMBDA c : c.IP # "")

\* an installer that puts the rule in place of what the chain held
InstallDefaultReplacing(ch, ruleSpec) ==
    IF ruleSpec \in Range(ch) THEN ch ELSE <<ruleSpec>>

\* an installer that appends without looking
InstallDefaultBlind(ch, ruleSpec) == iptAppend(ch, ruleSpec)

\* setDefaultRules: ipt.AppendUnique(r.table, r.chain, r.ruleSpec...)
InstallDefault(ch, ruleSpec) == iptAppendUnique(ch, ruleSpec)

\* additions that do not wait for the deletions
DeleteLoopIgnored(pending) == TRUE

\* syncChain: the addition loop starts when the deletion loop has run out
DeleteLoopDone(pending) == pending = <<>>

Call(op, chain, ruleSpec) == [op |-> op, chain |-> chain, ruleSpec |-> ruleSpec]

\* a loop that exits on the first error it would have logged
EndTickFatal(res) == /\ result' = res
                     /\ pc' = IF res \in {"nil", "gated"} THEN "wait" ELSE "stopped"

\* the tail of a tick: the error is logged (or nil returned) and the loop waits
EndTick(res) == /\ result' = res
                /\ pc' = "wait"

\* a gate that lets every initialized minion through, whatever its role
GatedInitOnly(minion) == minion.err \/ ~minion.SupervisorInit

\* runNat: if err != nil || !minion.SupervisorInit || minion.Role != db.Worker
Gated(minion) ==
    minion.err \/ ~minion.SupervisorInit \/ minion.Role # "Worker"

\* whether the host fails the adapter call (or iptables.New) about to be made
FaultChoice == IF faults > 0 THEN BOOLEAN ELSE {FALSE}

\* a failed call: it is the last of the tick's log, and changes nothing
Failed(call) ==
    /\ calls' = Append(calls, call)
    /\ failedAt' = Len(calls) + 1
    /\ faults' = faults - 1
    /\ UNCHANGED ipt

\* an installer that logs the error and goes on to the next rule
DefaultRuleFailedIgnored ==
    /\ IF defIdx = Len(DefaultRules(publicInterface))
       THEN pc' = "routingRules" /\ UNCHANGED defIdx
       ELSE defIdx' = defIdx + 1 /\ UNCHANGED pc
    /\ UNCHANGED result

\* setDefaultRules: return fmt.Errorf("iptables append: %s", err), which
\* updateNAT returns and runNat logs
DefaultRuleFailed ==
    /\ EndTick("iptables append")
    /\ UNCHANGED defIdx

\* a deletion loop that skips the rule it could not delete
DeleteFailedSkipped ==
    /\ rulesToDel' = Tail(rulesToDel)
    /\ UNCHANGED <<pc, result>>

\* syncChain: return fmt.Errorf("iptables delete: %s", err)
DeleteFailed ==
    /\ EndTick("iptables delete")
    /\ UNCHANGED rulesToDel

\* an addition loop that skips the rule it could not append
AppendFailedSkipped ==
    /\ rulesToAdd' = Tail(rulesToAdd)
    /\ UNCHANGED <<pc, result>>

\* syncChain: return fmt.Errorf("iptables append: %s", err)
AppendFailed ==
    /\ EndTick("iptables append")
    /\ UNCHANGED rulesToAdd

\* the tick aborted on a failed Delete or Append after a Delete or Append
\* that went through
PartialAbort ==
    /\ failedAt # 0
    /\ calls[failedAt].op \in {"Delete", "Append"}
    /\ \E i \in 1..(failedAt - 1) : calls[i].op \in {"Delete", "Append"}

\* a listing remembered from the first pass
ListedChainCached(table) == iptInit["PREROUTING"]

\* getRules: rules, err := ipt.List("nat", chain), read from the kernel
ListedChain(table) == table["PREROUTING"]

\* runNat, one iteration up to the call of updateNAT: the gates, the two
\* selections and iptables.New (which the host may fail)
RunNatTick ==
    /\ pc = "wait"
    /\ ticks < MaxTicks
    /\ ticks' = ticks + 1
    /\ calls' = <<>>
    /\ failedAt' = 0
    /\ interfered' = FALSE
    /\ iptAtStart' = ipt
    /\ prevOk' = IF result = "nil" THEN [ok |-> TRUE, rules |-> Range(target)]
                 ELSE IF result \in {"init", "gated", "no iptables handle"} THEN prevOk
                 ELSE [ok |-> FALSE, rules |-> {}]
    /\ prevPartial' = PartialAbort
    /\ IF Gated(dbMinion)
       THEN /\ EndTick("gated")
            /\ UNCHANGED <<containers, connections, faults>>
       ELSE /\ connections' = dbConnections
            /\ containers' = SelectFromContainer(dbContainers)
            /\ \E newFails \in FaultChoice :
                 IF newFails
                 THEN /\ EndTick("no iptables handle")
                      /\ faults' = faults - 1
                 ELSE /\ pc' = "updateNAT"
                      /\ result' = "running"
                      /\ UNCHANGED faults
    /\ UNCHANGED <<ipt, routes, dbMinion, dbContainers, dbConnections,
                   publicInterface, defIdx, target, curr, rulesToDel, rulesToAdd,
                   iptInit, extLeft, stitch>>

\* updateNAT: getPublicInterface and its error return
UpdateNAT ==
    /\ pc = "updateNAT"
    /\ LET r == getPublicInterfaceImpl(routes)
       IN IF r.err # "nil"
          THEN /\ EndTick("get public interface")
               /\ UNCHANGED <<publicInterface, defIdx>>
          ELSE /\ publicInterface' = r.name
               /\ defIdx' = 1
               /\ pc' = "setDefaultRules"
               /\ UNCHANGED result
    /\ UNCHANGED <<ipt, routes, dbMinion, dbContainers, dbConnections, containers,
                   connections, target, curr, rulesToDel, rulesToAdd, ticks, calls,
                   iptAtStart, iptInit, prevOk, faults, failedAt, prevPartial,
                   extLeft, interfered, stitch>>

\* setDefaultRules: one iteration of its loop
SetDefaultRules ==
    /\ pc = "setDefaultRules"
    /\ LET rules == DefaultRules(publicInterface)
           r == rules[defIdx]
       IN \E fails \in FaultChoice :
            IF fails
            THEN /\ Failed(Call("AppendUnique", r.chain, r.ruleSpec))
                 /\ DefaultRuleFailed
            ELSE /\ ipt' = [ipt EXCEPT ![r.chain] = InstallDefault(@, r.ruleSpec)]
                 /\ calls' = Append(calls, Call("AppendUnique", r.chain, r.ruleSpec))
                 /\ IF defIdx = Len(rules)
                    THEN pc' = "routingRules" /\ UNCHANGED defIdx
                    ELSE defIdx' = defIdx + 1 /\ UNCHANGED pc
                 /\ UNCHANGED <<result, faults, failedAt>>
    /\ UNCHANGED <<routes, dbMinion, dbContainers, dbConnections, containers,
                   connections, publicInterface, target, curr, rulesToDel,
                   rulesToAdd, ticks, iptAtStart, iptInit, prevOk, prevPartial,
                   extLeft, interfered, stitch>>

\* updateNAT: target := routingRules(publicInterface, containers, connections)
RoutingRules ==
    /\ pc = "routingRules"
    /\ \E strRules \in routingRules(publicInterface, containers, connections) :
         target' = strRules
    /\ pc' = "syncChain"
    /\ UNCHANGED <<ipt, routes, dbMinion, dbContainers, dbConnections, containers,
                   connections, publicInterface, defIdx, curr, rulesToDel,
                   rulesToAdd, result, ticks, calls, iptAtStart, iptInit, prevOk,
                   faults, failedAt, prevPartial, extLeft, interfered, stitch>>

\* syncChain: getRules and the join
SyncChainGet ==
    /\ pc = "syncChain"
    /\ \E fails \in FaultChoice :
         IF fails
         THEN /\ Failed(Call("List", "PREROUTING", <<>>))
              /\ EndTick("iptables get")
              /\ UNCHANGED <<curr, rulesToDel, rulesToAdd>>
         ELSE /\ calls' = Append(calls, Call("List", "PREROUTING", <<>>))
              /\ UNCHANGED <<ipt, faults, failedAt>>
              /\ LET got == getRules("PREROUTING", ListedChain(ipt))
                     joined == syncChainJoin(got.rules, target)
                 IN IF got.err
                    THEN /\ EndTick("iptables get")
                         /\ UNCHANGED <<curr, rulesToDel, rulesToAdd>>
                    ELSE /\ curr' = got.rules
                         /\ rulesToDel' = joined.lonelyLefts
                         /\ rulesToAdd' = joined.lonelyRights
                         /\ pc' = "syncLoops"
                         /\ UNCHANGED result
    /\ UNCHANGED <<routes, dbMinion, dbContainers, dbConnections, containers,
                   connections, publicInterface, defIdx, target, ticks, iptAtStart,
                   iptInit, prevOk, prevPartial, extLeft, interfered, stitch>>

\* syncChain: one iteration of the deletion loop
SyncChainDelete ==
    /\ pc = "syncLoops"
    /\ rulesToDel # <<>>
    /\ LET ruleSpec == Split(Head(rulesToDel))
       IN \E fails \in FaultChoice :
            IF fails \/ ~iptDeleteOk(ipt["PREROUTING"], ruleSpec)
            THEN /\ calls' = Append(calls, Call("Delete", "PREROUTING", ruleSpec))
                 /\ failedAt' = Len(calls) + 1
                 /\ faults' = IF fails THEN faults - 1 ELSE faults
                 /\ UNCHANGED ipt
                 /\ DeleteFailed
            ELSE /\ calls' = Append(calls, Call("Delete", "PREROUTING", ruleSpec))
                 /\ ipt' = [ipt EXCEPT !["PREROUTING"] = iptDelete(@, ruleSpec)]
                 /\ rulesToDel' = Tail(rulesToDel)
                 /\ UNCHANGED <<pc, result, faults, failedAt>>
    /\ UNCHANGED <<routes, dbMinion, dbContainers, dbConnections, containers,
                   connections, publicInterface, defIdx, target, curr, rulesToAdd,
                   ticks, iptAtStart, iptInit, prevOk, prevPartial, extLeft,
                   interfered, stitch>>

\* syncChain: one iteration of the addition loop, entered after the deletions
SyncChainAppend ==
    /\ pc = "syncLoops"
    /\ DeleteLoopDone(rulesToDel)
    /\ rulesToAdd # <<>>
    /\ LET ruleSpec == Split(Head(rulesToAdd))
       IN \E fails \in FaultChoice :
            IF fails
            THEN /\ Failed(Call("Append", "PREROUTING", ruleSpec))
                 /\ AppendFailed
            ELSE /\ calls' = Append(calls, Call("Append", "PREROUTING", ruleSpec))
                 /\ ipt' = [ipt EXCEPT !["PREROUTING"] = iptAppend(@, ruleSpec)]
                 /\ rulesToAdd' = Tail(rulesToAdd)
                 /\ UNCHANGED <<pc, result, faults, failedAt>>
    /\ UNCHANGED <<routes, dbMinion, dbContainers, dbConnections, containers,
                   connections, publicInterface, defIdx, target, curr, rulesToDel,
                   ticks, iptAtStart, iptInit, prevOk, prevPartial, extLeft,
                   interfered, stitch>>

\* syncChain: return nil
SyncChainReturn ==
    /\ pc = "syncLoops"
    /\ rulesToDel = <<>>
    /\ rulesToAdd = <<>>
    /\ EndTick("nil")
    /\ UNCHANGED <<ipt, routes, dbMinion, dbContainers, dbConnections, containers,
                   connections, publicInterface, defIdx, target, curr, rulesToDel,
                   rulesToAdd, ticks, calls, iptAtStart, iptInit, prevOk, faults,
                   failedAt, prevPartial, extLeft, interfered, stitch>>

\* rules another agent may add to nat/PREROUTING while the engine runs
ExternalRules ==
    {Split(FmtRule("eth0", "tcp", 80, "10.0.0.5")), <<"-j", "ACCEPT">>}

\* another agent appends a rule to nat/PREROUTING
ExternalAdd ==
    /\ extLeft > 0
    /\ \E ruleSpec \in ExternalRules :
         ipt' = [ipt EXCEPT !["PREROUTING"] = iptAppend(@, ruleSpec)]
    /\ extLeft' = extLeft - 1
    /\ interfered' = TRUE
    /\ UNCHANGED <<routes, dbMinion, dbContainers, dbConnections, pc, containers,
                   connections, publicInterface, defIdx, target, curr, rulesToDel,
                   rulesToAdd, result, ticks, calls, iptAtStart, iptInit, prevOk,
                   faults, failedAt, prevPartial, stitch>>

\* another agent deletes a rule of nat/PREROUTING
ExternalRemove ==
    /\ extLeft > 0
    /\ \E k \in 1..Len(ipt["PREROUTING"]) :
         ipt' = [ipt EXCEPT !["PREROUTING"] =
                     SubSeq(@, 1, k - 1) \o SubSeq(@, k + 1, Len(@))]
    /\ extLeft' = extLeft - 1
    /\ interfered' = TRUE
    /\ UNCHANGED <<routes, dbMinion, dbContainers, dbConnections, pc, containers,
                   connections, publicInterface, defIdx, target, curr, rulesToDel,
                   rulesToAdd, result, ticks, calls, iptAtStart, iptInit, prevOk,
                   faults, failedAt, prevPartial, stitch>>

Next ==
    \/ RunNatTick
    \/ UpdateNAT
    \/ SetDefaultRules
    \/ RoutingRules
    \/ SyncChainGet
    \/ SyncChainDelete
    \/ SyncChainAppend
    \/ SyncChainReturn

-----------------------------------------------------------------------------
(* Initial states *)

Container(ip, labels) == [IP |-> ip, Labels |-> labels]
Connection(from, to, min, max) ==
    [From |-> from, To |-> to, MinPort |-> min, MaxPort |-> max]

Route(dst, link) == [Dst |-> dst, LinkIndex |-> link]

\* a worker that finished initialization
WorkerMinion == [err |-> FALSE, SupervisorInit |-> TRUE, Role |-> "Worker"]

Minions ==
    {WorkerMinion,
     [err |-> TRUE, SupervisorInit |-> FALSE, Role |-> "None"],
     [err |-> FALSE, SupervisorInit |-> FALSE, Role |-> "Worker"],
     [err |-> FALSE, SupervisorInit |-> TRUE, Role |-> "Master"]}

Links == (1 :> "eth0") @@ (2 :> "eth1")

RoutesVia(link) ==
    [routeListErr |-> FALSE,
     routeList |-> <<Route("10.0.0.0/8", 3 - link), Route("nil", link)>>,
     links |-> Links]

RoutesOk == {RoutesVia(1), RoutesVia(2)}

RoutesBroken ==
    {[routeListErr |-> TRUE, routeList |-> <<>>, links |-> Links],
     [routeListErr |-> FALSE, routeList |-> <<>>, links |-> Links],
     [routeListErr |-> FALSE, routeList |-> <<Route("10.0.0.0/8", 1)>>, links |-> Links],
     [routeListErr |-> FALSE, routeList |-> <<Route("nil", 2)>>, links |-> (1 :> "eth0")]}

\* the rows the container and connection tables are filled from
ContainerRows ==
    {Container("10.0.0.5", <<"web">>), Container("10.0.0.9", <<"db">>),
     Container("10.0.0.9", <<"web", "db">>), Container("", <<"web">>)}

ConnectionRows ==
    {Connection(PublicInternetLabel, "web", 80, 80),
     Connection(PublicInternetLabel, "db", 80, 81),
     Connection(PublicInternetLabel, "web", 81, 81),
     Connection("web", "db", 80, 80)}

\* table contents for the runs that vary the firewall instead
Snapshots ==
    {[c |-> <<>>, n |-> <<>>],
     [c |-> <<Container("10.0.0.5", <<"web">>)>>,
      n |-> <<Connection(PublicInternetLabel, "web", 80, 80)>>],
     [c |-> <<Container("", <<"web">>)>>,
      n |-> <<Connection(PublicInternetLabel, "web", 80, 80)>>],
     [c |-> <<Container("10.0.0.5", <<"web">>), Container("10.0.0.9", <<"db">>)>>,
      n |-> <<Connection(PublicInternetLabel, "web", 80, 80),
              Connection(PublicInternetLabel, "db", 80, 80)>>]}

\* rules another agent, or an earlier pass, may have left in nat/PREROUTING
PreroutingRules ==
    {Split(FmtRule("eth0", Protocols[k], 80, ip)) : k \in 1..2, ip \in IPs}
        \cup {<<"-j", "ACCEPT">>, <<>>}

\* rules that may already be in the three baseline chains
BaseRules(chain) ==
    IF chain = "POSTROUTING"
    THEN {<<"-s", "10.0.0.0/8", "-o", i, "-j", "MASQUERADE">> : i \in Ifaces}
             \cup {<<"-j", "RETURN">>}
    ELSE {<<"-j", "ACCEPT">>, <<"-j", "RETURN">>}

EmptyTable == [c \in Chains |-> <<>>]

InitLocals ==
    /\ pc = "wait"
    /\ containers = <<>>
    /\ connections = <<>>
    /\ publicInterface = ""
    /\ defIdx = 1
    /\ target = <<>>
    /\ curr = <<>>
    /\ rulesToDel = <<>>
    /\ rulesToAdd = <<>>
    /\ result = "init"
    /\ ticks = 0
    /\ calls = <<>>
    /\ iptAtStart = ipt
    /\ iptInit = ipt
    /\ prevOk = [ok |-> FALSE, rules |-> {}]
    /\ failedAt = 0
    /\ prevPartial = FALSE
    /\ interfered = FALSE

\* any content of nat/PREROUTING, under each snapshot
InitPrerouting ==
    /\ \E pre \in SeqsUpTo(PreroutingRules, MaxChain) :
         ipt = [EmptyTable EXCEPT !["PREROUTING"] = pre]
    /\ routes = RoutesVia(1)
    /\ dbMinion = WorkerMinion
    /\ \E s \in Snapshots : dbContainers = s.c /\ dbConnections = s.n

\* any content of the baseline chains, under each working routing table
InitBaseline ==
    /\ \E i \in SeqsUpTo(BaseRules("INPUT"), MaxBase),
          o \in SeqsUpTo(BaseRules("OUTPUT"), MaxBase),
          p \in SeqsUpTo(BaseRules("POSTROUTING"), MaxBase) :
         ipt = [EmptyTable EXCEPT !["INPUT"] = i, !["OUTPUT"] = o,
                                  !["POSTROUTING"] = p]
    /\ routes \in RoutesOk
    /\ dbMinion = WorkerMinion
    /\ dbContainers = <<Container("10.0.0.5", <<"web">>)>>
    /\ dbConnections = <<Connection(PublicInternetLabel, "web", 80, 80)>>

\* any minion record and any routing table
InitHost ==
    /\ \E pre \in SeqsUpTo({<<"-j", "ACCEPT">>}, 1) :
         ipt = [EmptyTable EXCEPT !["PREROUTING"] = pre]
    /\ routes \in RoutesOk \cup RoutesBroken
    /\ dbMinion \in Minions
    /\ dbContainers = <<Container("10.0.0.5", <<"web">>)>>
    /\ dbConnections = <<Connection(PublicInternetLabel, "web", 80, 80)>>

\* a host whose adapter never fails, and no other agent on the chain
Reliable ==
    /\ stitch = NoStitch
    /\ faults = 0
    /\ extLeft = 0

Init ==
    /\ InitPrerouting \/ InitBaseline \/ InitHost
    /\ InitLocals
    /\ Reliable

Spec == Init /\ [][Next]_vars

\* any content of the container and connection tables, on an empty firewall
InitTables ==
    /\ ipt = EmptyTable
    /\ routes = RoutesVia(1)
    /\ dbMinion = WorkerMinion
    /\ dbContainers \in SeqsUpTo(ContainerRows, MaxContainers)
    /\ dbConnections \in SeqsUpTo(ConnectionRows, MaxConns)
    /\ InitLocals
    /\ Reliable

\* the pass up to the compiled target
NextCompile ==
    \/ RunNatTick
    \/ UpdateNAT
    \/ SetDefaultRules
    \/ RoutingRules

SpecCompile == InitTables /\ [][NextCompile]_vars

\* a host that may fail adapter calls, and no other agent on the chain
Unreliable ==
    /\ stitch = NoStitch
    /\ faults = MaxFaults
    /\ extLeft = 0

InitFail ==
    /\ InitPrerouting \/ InitHost
    /\ InitLocals
    /\ Unreliable

\* the control loop on a host whose adapter calls may fail
SpecFail == InitFail /\ [][Next]_vars

\* the connections a specification may declare
StitchConnections ==
    {Connection(PublicInternetLabel, "web", 80, 80),
     Connection(PublicInternetLabel, "db", 80, 80),
     Connection("web", PublicInternetLabel, 80, 80),
     Connection(PublicInternetLabel, "web", 81, 81),
     Connection(PublicInternetLabel, "db", 80, 81),
     Connection("web", "db", 80, 80)}

\* the placements a specification may declare itself
StitchPlacements ==
    {<<>>,
     <<[TargetLabel |-> "db", Exclusive |-> FALSE, OtherLabel |-> "",
        Provider |-> "Amazon", Size |-> "", Region |-> ""]>>}

\* a parsed specification, before New calls createPortRules
InitStitch ==
    /\ \E conns \in SeqsUpTo(StitchConnections, MaxConns), ps \in StitchPlacements :
         stitch = [Connections |-> conns, Placements |-> ps, Parsed |-> ps,
                   pc |-> "parsed"]
    /\ ipt = EmptyTable
    /\ routes = RoutesVia(1)
    /\ dbMinion = WorkerMinion
    /\ dbContainers = <<>>
    /\ dbConnections = <<>>
    /\ InitLocals
    /\ faults = 0
    /\ extLeft = 0

SpecStitch == InitStitch /\ [][CreatePortRules]_vars

\* a host whose adapter never fails on its own, and another agent at work
\* on nat/PREROUTING
Shared ==
    /\ stitch = NoStitch
    /\ faults = 0
    /\ extLeft = MaxExt

\* the control loop and the other agent, interleaved
NextShared ==
    \/ Next
    \/ ExternalAdd
    \/ ExternalRemove

\* rules a "web" container that has since moved, or another agent, left behind
StaleRules ==
    {Split(FmtRule("eth0", "tcp", 80, "10.0.0.9")), <<"-j", "ACCEPT">>}

\* one "web" container behind a public port, on a chain of leftovers
InitRecover ==
    /\ \E pre \in SeqsUpTo(StaleRules, MaxChain) :
         ipt = [EmptyTable EXCEPT !["PREROUTING"] = pre]
    /\ routes = RoutesVia(1)
    /\ dbMinion = WorkerMinion
    /\ dbContainers = <<Container("10.0.0.5", <<"web">>)>>
    /\ dbConnections = <<Connection(PublicInternetLabel, "web", 80, 80)>>
    /\ InitLocals
    /\ Unreliable

\* the host's default route moves to another link, or the routing state
\* turns unreadable, between two reads of getPublicInterface
RouteChange ==
    /\ \E rt \in RoutesOk \cup RoutesBroken :
         /\ rt # routes
         /\ routes' = rt
    /\ UNCHANGED <<ipt, dbMinion, dbContainers, dbConnections, pc, containers,
                   connections, publicInterface, defIdx, target, curr, rulesToDel,
                   rulesToAdd, result, ticks, calls, iptAtStart, iptInit, prevOk,
                   faults, failedAt, prevPartial, extLeft, interfered, stitch>>

\* the control loop on a host whose routing state changes
NextRoutes ==
    \/ Next
    \/ RouteChange

\* one "web" container behind a public port, leftovers in nat/PREROUTING
\* and possibly a foreign rule in nat/POSTROUTING, under each default route
InitRoutes ==
    /\ \E pre \in SeqsUpTo(StaleRules, MaxChain),
          post \in SeqsUpTo({<<"-j", "RETURN">>}, 1) :
         ipt = [EmptyTable EXCEPT !["PREROUTING"] = pre, !["POSTROUTING"] = post]
    /\ routes \in RoutesOk
    /\ dbMinion = WorkerMinion
    /\ dbContainers = <<Container("10.0.0.5", <<"web">>)>>
    /\ dbConnections = <<Connection(PublicInternetLabel, "web", 80, 80)>>
    /\ InitLocals
    /\ Reliable

SpecRoutes == InitRoutes /\ [][NextRoutes]_vars

\* the same table and chains, shared with another agent
InitShared ==
    /\ \E pre \in SeqsUpTo(StaleRules, MaxChain) :
         ipt = [EmptyTable EXCEPT !["PREROUTING"] = pre]
    /\ routes = RoutesVia(1)
    /\ dbMinion = WorkerMinion
    /\ dbContainers = <<Container("10.0.0.5", <<"web">>)>>
    /\ dbConnections = <<Connection(PublicInternetLabel, "web", 80, 80)>>
    /\ InitLocals
    /\ Shared

SpecShared == InitShared /\ [][NextShared]_vars

\* the failing host, with the loop's goroutine scheduled whenever it has a step
SpecFailFair == InitRecover /\ [][Next]_vars /\ WF_vars(Next)

-----------------------------------------------------------------------------
(* Vocabulary of the properties *)

\* the rule strings of a chain, as its listing shows them
ChainRules(chain) == {Join(ipt[chain][i]) : i \in 1..Len(ipt[chain])}

\* the mutating calls of the current tick
Mutations == {i \in 1..Len(calls) : calls[i].op \in {"Delete", "Append"}}

\* the last tick ran syncChain to its return nil
PassSucceeded == pc = "wait" /\ result = "nil"

NoRepeats(s) == Cardinality(Range(s)) = Len(s)

\* the text of a destination-NAT rule, spelled out atom by atom
DNATRule(iface, protocol, port, ip) ==
    <<"-i", SP, iface, SP, "-p", SP, protocol, SP, "-m", SP, protocol, SP,
      "--dport", SP, PortStr(port), SP, "-j", SP, "DNAT", SP,
      "--to-destination", SP, ip \o ":" \o PortStr(port)>>

-----------------------------------------------------------------------------
(* Properties of syncChain *)

SymmetricDifference ==
    (Range(curr) \ Range(target)) \cup (Range(target) \ Range(curr))

DeleteBeforeAdd ==
    \A i, j \in Mutations :
        (calls[i].op = "Append" /\ calls[j].op = "Delete") => j < i

\* the stale forward of port 80 to 10.0.0.9 is deleted, then the forward to
\* 10.0.0.5 is appended
DeleteBeforeAddWitness ==
    \E i, j \in Mutations :
        /\ i < j
        /\ calls[i] = Call("Delete", "PREROUTING",
                           Split(DNATRule("eth0", "tcp", 80, "10.0.0.9")))
        /\ calls[j] = Call("Append", "PREROUTING",
                           Split(DNATRule("eth0", "tcp", 80, "10.0.0.5")))

-----------------------------------------------------------------------------
(* Properties of updateNAT and setDefaultRules *)

BaselineChains == <<"INPUT", "OUTPUT", "POSTROUTING">>

\* the baseline rule of the k-th baseline chain for an interface
BaselineRule(k, iface) ==
    IF k = 3 THEN <<"-s", "10.0.0.0/8", "-o", iface, "-j", "MASQUERADE">>
    ELSE <<"-j", "ACCEPT">>

\* C5 Baseline first: every call of a tick on nat/PREROUTING comes after the
\* AppendUnique calls on nat/INPUT, nat/OUTPUT and nat/POSTROUTING.
BaselineFirst ==
    \A j \in 1..Len(calls) :
        calls[j].chain = "PREROUTING" =>
            /\ j > 3
            /\ \A k \in 1..3 :
                 calls[k] = Call("AppendUnique", BaselineChains[k],
                                 BaselineRule(k, publicInterface))

\* a tick that listed, deleted from and appended to nat/PREROUTING
BaselineFirstWitness ==
    /\ \E j \in 1..Len(calls) : calls[j].op = "List"
    /\ \E i, j \in Mutations : calls[i].op = "Delete" /\ calls[j].op = "Append"

\* the resolver's three failures, read off the routing state
NoDefaultRoute ==
    /\ ~routes.routeListErr
    /\ \A i \in 1..Len(routes.routeList) : routes.routeList[i].Dst # "nil"

LinkLookupFails ==
    /\ ~routes.routeListErr
    /\ \E i \in 1..Len(routes.routeList) :
         /\ routes.routeList[i].Dst = "nil"
         /\ \A j \in 1..(i - 1) : routes.routeList[j].Dst # "nil"
         /\ routes.routeList[i].LinkIndex \notin DOMAIN routes.links

ResolverFails == routes.routeListErr \/ NoDefaultRoute \/ LinkLookupFails

\* C6 Resolver failure: when the public interface cannot be resolved the pass
\* goes no further than updateNAT's error return, which leaves no adapter
\* call behind and the firewall as the tick found it.
ResolverFailure ==
    /\ ResolverFails =>
         /\ pc \in {"wait", "updateNAT"}
         /\ calls = <<>>
         /\ ipt = iptAtStart
         /\ result \in {"init", "gated", "no iptables handle", "running",
                         "get public interface"}
    /\ result = "get public interface" =>
         ResolverFails /\ calls = <<>> /\ ipt = iptAtStart

\* updateNAT returned its error on a host without a default route whose
\* nat/PREROUTING holds a rule
ResolverFailureWitness ==
    /\ NoDefaultRoute
    /\ routes.routeList # <<>>
    /\ pc = "wait"
    /\ result = "get public interface"
    /\ ipt["PREROUTING"] # <<>>

\* setDefaultRules has run to its end in the current tick
DefaultsInstalled ==
    Len(calls) >= 3 /\ \A k \in 1..3 : calls[k].op = "AppendUnique"

\* C7 Default-rule safety: whatever the baseline chains held, they keep it
\* in place; each gains its baseline rule at the end, once, if and only if
\* it did not hold it; and no Delete or Append names a baseline chain.
DefaultRuleSafety ==
    /\ \A k \in 1..3 :
         LET c == BaselineChains[k]
             b == BaselineRule(k, publicInterface)
         IN /\ ipt[c] \in {iptInit[c], iptInit[c] \o <<b>>}
            /\ b \in Range(iptInit[c]) => ipt[c] = iptInit[c]
            /\ DefaultsInstalled => b \in Range(ipt[c])
    /\ \A i \in Mutations : calls[i].chain = "PREROUTING"

\* the installer's second run: INPUT held the baseline rule behind another
\* rule and is as it was, POSTROUTING held two other rules and has gained
\* the masquerade rule once
DefaultRuleSafetyWitness ==
    /\ ticks = 2
    /\ DefaultsInstalled
    /\ iptInit["INPUT"] = <<<<"-j", "RETURN">>, <<"-j", "ACCEPT">>>>
    /\ ipt["INPUT"] = iptInit["INPUT"]
    /\ Len(iptInit["POSTROUTING"]) = 2
    /\ BaselineRule(3, publicInterface) \notin Range(iptInit["POSTROUTING"])
    /\ ipt["POSTROUTING"]
           = iptInit["POSTROUTING"] \o <<BaselineRule(3, publicInterface)>>

-----------------------------------------------------------------------------
(* Properties of routingRules, on the target the pass has just compiled *)

Compiled == pc = "syncChain"

\* the rule set the compiler is to produce for the selected rows
ExpectedRules(iface, ctrs, conns) ==
    LET matches == {m \in Range(conns) \X Range(ctrs) :
                       /\ m[1].From = "public"
                       /\ \E i \in 1..Len(m[2].Labels) : m[2].Labels[i] = m[1].To}
    IN {DNATRule(iface, protocol, m[1].MinPort, m[2].IP) :
            protocol \in {"tcp", "udp"}, m \in matches}

\* C8 Compiler correctness: the compiled rules are exactly the DNAT rules,
\* for tcp and udp, of the pairs of a connection from the public label and a
\* container carrying the connection's destination label, on the
\* connection's minimum port.
CompilerCorrect ==
    Compiled => Range(target) = ExpectedRules(publicInterface, containers, connections)

\* two public connections on port 80, one of them a range, reach two
\* containers: four rules, none for port 81
CompilerCorrectWitness ==
    /\ Compiled
    /\ containers = <<Container("10.0.0.5", <<"web">>), Container("10.0.0.9", <<"db">>)>>
    /\ connections = <<Connection("public", "web", 80, 80),
                       Connection("public", "db", 80, 81)>>
    /\ Cardinality(Range(target)) = 4
    /\ DNATRule("eth0", "udp", 80, "10.0.0.9") \in Range(target)

\* C9 Exclusion: no compiled rule redirects to an empty address, every
\* compiled rule redirects to the address of a container row that has one,
\* and one public connection to "web" on port 80 with one "web" container
\* without an address compiles to nothing.
Exclusion ==
    Compiled =>
        /\ \A t \in Range(target) :
             /\ \A protocol \in {"tcp", "udp"}, port \in Ports :
                  t # DNATRule(publicInterface, protocol, port, "")
             /\ \E protocol \in {"tcp", "udp"}, port \in Ports,
                   c \in Range(dbContainers) :
                  c.IP # "" /\ t = DNATRule(publicInterface, protocol, port, c.IP)
        /\ ( /\ dbContainers = <<Container("", <<"web">>)>>
             /\ dbConnections = <<Connection("public", "web", 80, 80)>> )
           => target = <<>>

\* the compiler ran on a container table whose "web" rows are one without
\* an address and one with, under a public connection to "web"
ExclusionWitness ==
    /\ Compiled
    /\ dbContainers = <<Container("", <<"web">>), Container("10.0.0.9", <<"web", "db">>)>>
    /\ dbConnections = <<Connection("public", "web", 80, 80)>>
    /\ Len(target) = 2

\* the same rows in another order
Reorderings(s) ==
    {[i \in 1..Len(s) |-> s[o[i]]] : o \in Orders(1..Len(s))}

\* the same rows in another order, or with every row given twice
Rearrangements(s) == Reorderings(s) \cup {s \o s}

\* the container rows rearranged, or the connection rows rearranged
RearrangedInputs ==
    {<<cs, connections>> : cs \in Rearrangements(containers)}
        \cup {<<containers, ns>> : ns \in Rearrangements(connections)}

\* C10 Set semantics: whatever the order of the container rows or of the
\* connection rows, and with rows repeated, every slice the compiler may
\* return holds the same rules, each once.
SetSemantics ==
    Compiled =>
        \A in \in RearrangedInputs :
            \A strRules \in routingRules(publicInterface, in[1], in[2]) :
                /\ Range(strRules) = Range(target)
                /\ NoRepeats(strRules)

\* two different containers and two different public connections compiled
\* to eight rules
SetSemanticsWitness ==
    /\ Compiled
    /\ Len(containers) = 2
    /\ containers[1].IP # containers[2].IP
    /\ Len(connections) = 2
    /\ connections[1].MinPort # connections[2].MinPort
    /\ Len(target) = 8

-----------------------------------------------------------------------------
(* The control loop: gating and survival of failures *)

\* the minion record does not pass the gates of runNat
NotInitializedWorker ==
    \/ dbMinion.err
    \/ ~dbMinion.SupervisorInit
    \/ dbMinion.Role # "Worker"

\* C11 Gating: on a node whose record cannot be read, that is not
\* initialized or that is not a worker, every tick ends at the gate: no
\* adapter call is made, the firewall keeps its content and no step of
\* updateNAT is ever taken.  A pass is under way only on an initialized
\* worker.
Gating ==
    /\ NotInitializedWorker =>
         /\ pc = "wait"
         /\ calls = <<>>
         /\ ipt = iptInit
         /\ ticks > 0 => result = "gated"
    /\ pc # "wait" => ( /\ ~dbMinion.err
                        /\ dbMinion.SupervisorInit
                        /\ dbMinion.Role = "Worker" )

\* an initialized master has consumed both ticks at the gate
GatingWitness ==
    /\ dbMinion.Role = "Master"
    /\ dbMinion.SupervisorInit
    /\ ticks = 2
    /\ result = "gated"

\* what a tick ends with when it did not run to the end of syncChain
TickFailures ==
    {"gated", "no iptables handle", "get public interface", "iptables get",
     "iptables delete", "iptables append"}

\* C12 The loop survives failures: the goroutine is always at one of the
\* positions of the loop; a tick that ended at a gate, without a handle or
\* with an error of updateNAT leaves it waiting for the next trigger, which
\* (while ticks remain) it can take, and on an initialized worker that next
\* tick can go on to updateNAT again.
LoopSurvives ==
    /\ pc \in {"wait", "updateNAT", "setDefaultRules", "routingRules",
               "syncChain", "syncLoops"}
    /\ result \in TickFailures =>
         /\ pc = "wait"
         /\ ticks < MaxTicks =>
              /\ ENABLED RunNatTick
              /\ ~NotInitializedWorker => ENABLED (RunNatTick /\ pc' = "updateNAT")

\* the second tick reached updateNAT after a first tick that the host failed
LoopSurvivesWitness ==
    /\ ticks = 2
    /\ pc = "updateNAT"
    /\ faults < MaxFaults

-----------------------------------------------------------------------------
(* Failures of adapter calls *)

PreroutingCalls == {i \in 1..Len(calls) : calls[i].chain = "PREROUTING"}

\* the call that failed in this tick was an AppendUnique of setDefaultRules
DefaultRuleAppendFailed ==
    /\ failedAt # 0
    /\ calls[failedAt].op = "AppendUnique"

\* C14 Baseline failure is fatal to the tick: when an AppendUnique of
\* setDefaultRules fails, it is the last adapter call of the tick, the tick
\* has ended with the error "iptables append", the firewall holds what the
\* AppendUnique calls before it left, and the tick made no List, Delete or
\* Append on nat/PREROUTING.
BaselineFailureFatal ==
    DefaultRuleAppendFailed =>
        /\ failedAt = Len(calls)
        /\ pc = "wait"
        /\ result = "iptables append"
        /\ PreroutingCalls = {}
        /\ ipt["PREROUTING"] = iptAtStart["PREROUTING"]

\* the second AppendUnique (on OUTPUT) failed after the first went through
BaselineFailureFatalWitness ==
    /\ DefaultRuleAppendFailed
    /\ failedAt = 2
    /\ Len(ipt["INPUT"]) = Len(iptAtStart["INPUT"]) + 1
    /\ iptAtStart["PREROUTING"] # <<>>
    /\ dbConnections # <<>>

\* the call that failed in this tick was a Delete or an Append of syncChain
SyncCallFailed ==
    /\ failedAt # 0
    /\ calls[failedAt].op \in {"Delete", "Append"}

RECURSIVE Replay(_, _)
\* nat/PREROUTING after the first k calls of the tick, the failed one left
\* out, starting from ch
Replay(ch, k) ==
    IF k = 0 THEN ch
    ELSE LET before == Replay(ch, k - 1)
             c == calls[k]
         IN IF k = failedAt \/ c.chain # "PREROUTING" THEN before
            ELSE IF c.op = "Delete" THEN iptDelete(before, c.ruleSpec)
            ELSE IF c.op = "Append" THEN iptAppend(before, c.ruleSpec)
            ELSE before

\* C15 Abort on the first error: when a Delete or an Append of syncChain
\* fails, it is the last adapter call of the tick (no retry, no later
\* delta), the tick has ended with that call's error, the rule it was for
\* is still the first of the pending ones, and nat/PREROUTING holds exactly
\* what the Deletes and Appends before it made of the chain.
AbortOnError ==
    SyncCallFailed =>
        /\ failedAt = Len(calls)
        /\ pc = "wait"
        /\ IF calls[failedAt].op = "Delete"
           THEN /\ result = "iptables delete"
                /\ rulesToDel # <<>>
                /\ Split(Head(rulesToDel)) = calls[failedAt].ruleSpec
           ELSE /\ result = "iptables append"
                /\ rulesToAdd # <<>>
                /\ Split(Head(rulesToAdd)) = calls[failedAt].ruleSpec
        /\ ipt["PREROUTING"] = Replay(iptAtStart["PREROUTING"], failedAt - 1)

\* the stale rule was deleted, the first Append went through and the second
\* failed: the chain holds the one appended rule
AbortOnErrorWitness ==
    /\ SyncCallFailed
    /\ calls[failedAt].op = "Append"
    /\ calls[failedAt - 1].op = "Append"
    /\ calls[failedAt - 2].op = "Delete"
    /\ ipt["PREROUTING"] = <<calls[failedAt - 1].ruleSpec>>
    /\ Len(rulesToAdd) = 1

-----------------------------------------------------------------------------
(* The listing and the deltas of syncChain *)

\* the tick has listed nat/PREROUTING
Listed == \E i \in 1..Len(calls) : calls[i].op = "List"

\* the chain as it was listed: no one but the engine changes it, and the
\* engine does not before its List
ChainListed == iptAtStart["PREROUTING"]

\* the chain held a rule with no argument, listed as "-A PREROUTING"
ShortLineListed == \E k \in 1..Len(ChainListed) : ChainListed[k] = <<>>

\* C16 Listing filter: once a tick has listed nat/PREROUTING, then either
\* some "-A" line had only two fields, and the tick has ended with the
\* error "iptables get" without a Delete or an Append; or getRules returned,
\* in listing order, one string per rule of the chain, namely the rule's
\* arguments separated by single spaces (what follows "-A PREROUTING " on
\* its line), the "-P" line having been dropped.
ListingFilter ==
    Listed =>
        IF ShortLineListed
        THEN /\ pc = "wait"
             /\ result = "iptables get"
             /\ Mutations = {}
        ELSE /\ result # "iptables get"
             /\ curr = [k \in 1..Len(ChainListed) |-> Join(ChainListed[k])]

\* a listing of the policy line and two rules gave back the two rule texts
ListingFilterWitness ==
    /\ Listed
    /\ curr = << <<"-j", SP, "ACCEPT">>, DNATRule("eth0", "udp", 80, "10.0.0.9") >>
    /\ Len(iptList("PREROUTING", ChainListed)) = 3

\* a listing with a two-field "-A" line ended the tick
ListingFilterShortWitness ==
    /\ Listed
    /\ ShortLineListed
    /\ Len(ChainListed) = 2
    /\ result = "iptables get"

\* the listing of this tick went through, so curr is this tick's listing
ListingInHand == Listed /\ ~(pc = "wait" /\ result = "iptables get")

\* how many times a chain holds a rule
Occurrences(ch, ruleSpec) == Cardinality({k \in 1..Len(ch) : ch[k] = ruleSpec})

\* C17 Frame: the adapter calls of a tick are AppendUnique on the three
\* baseline chains and List, Delete and Append on nat/PREROUTING, nothing
\* else; every Delete is for a rule that was listed and is not in the
\* target, every Append for a target rule that was not listed; a rule that
\* is both listed and in the target gets no call and is in the chain as
\* many times as when the tick began.
FrameEffect ==
    /\ \A i \in 1..Len(calls) :
         \/ calls[i].op = "AppendUnique" /\ calls[i].chain \in Range(BaselineChains)
         \/ calls[i].op = "List" /\ calls[i].chain = "PREROUTING"
         \/ /\ calls[i].op = "Delete"
            /\ calls[i].chain = "PREROUTING"
            /\ \E r \in Range(curr) \ Range(target) : calls[i].ruleSpec = Split(r)
         \/ /\ calls[i].op = "Append"
            /\ calls[i].chain = "PREROUTING"
            /\ \E r \in Range(target) \ Range(curr) : calls[i].ruleSpec = Split(r)
    /\ ListingInHand =>
         \A r \in Range(curr) \cap Range(target) :
             /\ \A i \in Mutations : calls[i].ruleSpec # Split(r)
             /\ Occurrences(ipt["PREROUTING"], Split(r))
                    = Occurrences(iptAtStart["PREROUTING"], Split(r))

\* a pass over a chain holding one target rule and one stale rule ended
\* after one Delete and one Append, the target rule untouched
FrameEffectWitness ==
    /\ PassSucceeded
    /\ iptAtStart["PREROUTING"] = <<Split(DNATRule("eth0", "tcp", 80, "10.0.0.5")),
                                    Split(DNATRule("eth0", "tcp", 80, "10.0.0.9"))>>
    /\ Range(target) = {DNATRule("eth0", "tcp", 80, "10.0.0.5"),
                        DNATRule("eth0", "udp", 80, "10.0.0.5")}
    /\ Cardinality(Mutations) = 2
    /\ ipt["PREROUTING"][1] = iptAtStart["PREROUTING"][1]

\* two rules of the chain forward the same interface, protocol and port to
\* different addresses
Ambiguous(ch) ==
    \E iface \in Ifaces, protocol \in {"tcp", "udp"}, port \in Ports :
        \E ip1, ip2 \in IPs :
            /\ ip1 # ip2
            /\ Split(DNATRule(iface, protocol, port, ip1)) \in Range(ch)
            /\ Split(DNATRule(iface, protocol, port, ip2)) \in Range(ch)

\* the same of a list of rule strings
AmbiguousRules(strRules) ==
    Ambiguous([k \in 1..Len(strRules) |-> Split(strRules[k])])

-----------------------------------------------------------------------------
(* Another agent on nat/PREROUTING *)

SharedChainRecoveredWitness ==
    /\ ticks = 2
    /\ ~interfered
    /\ extLeft = 0
    /\ PassSucceeded
    /\ Cardinality(Mutations) > 0

-----------------------------------------------------------------------------
(* stitch: placement rules for public ports *)

\* the connections of the specification that have the public label at one
\* end, by index
PublicConnections ==
    {i \in 1..Len(stitch.Connections) :
        \/ stitch.Connections[i].From = "public"
        \/ stitch.Connections[i].To = "public"}

\* the label at the other end of such a connection
NonPublicLabel(i) ==
    CHOOSE l \in {stitch.Connections[i].From, stitch.Connections[i].To} :
        l # "public"

\* the ordered pairs of such connections (a connection with itself
\* included) that have the same MinPort
SamePortPairs ==
    {p \in PublicConnections \X PublicConnections :
        stitch.Connections[p[1]].MinPort = stitch.Connections[p[2]].MinPort}

\* what createPortRules appended to the placements
AddedPlacements ==
    SubSeq(stitch.Placements, Len(stitch.Parsed) + 1, Len(stitch.Placements))

\* C20 Port placement rules: createPortRules keeps the placements that were
\* there and appends one placement per ordered pair of public connections
\* with the same MinPort, the pair of a connection with itself included:
\* each is Exclusive, from the non-public label of the first to the
\* non-public label of the second, with no other field set.  Connections
\* without the public label add nothing.
PortPlacements ==
    stitch.pc = "done" =>
        /\ SubSeq(stitch.Placements, 1, Len(stitch.Parsed)) = stitch.Parsed
        /\ Len(AddedPlacements) = Cardinality(SamePortPairs)
        /\ \A p \in SamePortPairs :
             \E k \in 1..Len(AddedPlacements) :
                 AddedPlacements[k] =
                     [TargetLabel |-> NonPublicLabel(p[1]), Exclusive |-> TRUE,
                      OtherLabel |-> NonPublicLabel(p[2]),
                      Provider |-> "", Size |-> "", Region |-> ""]
        /\ \A k \in 1..Len(AddedPlacements) :
             \E p \in SamePortPairs :
                 /\ AddedPlacements[k].Exclusive
                 /\ AddedPlacements[k].TargetLabel = NonPublicLabel(p[1])
                 /\ AddedPlacements[k].OtherLabel = NonPublicLabel(p[2])

\* an inbound connection to "db" and an outbound one from "web" on port 80
\* gave the four placements db-db, db-web, web-db, web-web after the one
\* the specification declared
PortPlacementsWitness ==
    /\ stitch.pc = "done"
    /\ stitch.Connections = <<Connection("public", "db", 80, 80),
                              Connection("web", "public", 80, 80)>>
    /\ Len(stitch.Parsed) = 1
    /\ Len(stitch.Placements) = 5
    /\ stitch.Placements[3].TargetLabel = "db"
    /\ stitch.Placements[3].OtherLabel = "web"

-----------------------------------------------------------------------------
(* The baseline chains over the ticks *)

\* the list s is the beginning of the list t
IsPrefix(s, t) == Len(s) <= Len(t) /\ SubSeq(t, 1, Len(s)) = s

\* the masquerade rule of an interface
Masquerade(iface) == <<"-s", "10.0.0.0/8", "-o", iface, "-j", "MASQUERADE">>

\* the rule starts with "-i <iface>"
NamesInterface(ruleSpec, iface) ==
    /\ Len(ruleSpec) >= 2
    /\ ruleSpec[1] = "-i"
    /\ ruleSpec[2] = iface

====
